---- MODULE Spec2Model ----
(***************************************************************************)
(* txsni: SNI-driven certificate selection with ACME tls-alpn-01 support.  *)
(* A model of src/txsni/snimap.py (SNIMap, _ConnectionProxy,               *)
(* _ContextProxy, _NegotiationData, HostDirectoryMap) and of the           *)
(* hostname -> certificate maps of src/txsni/certmaps.py and               *)
(* src/txsni/dehydrated.py.                                                *)
(*                                                                         *)
(* Python's None is the empty set and a present value v is {v}, so that    *)
(* every nullable field keeps one type.                                    *)
(***************************************************************************)
EXTENDS Integers, Sequences, FiniteSets, TLC

VARIABLES
    mapping,                    \* SNIMap.mapping: the primary resolver
    acme_mapping,               \* SNIMap.acme_mapping: None or the ACME resolver
    dispatcher,                 \* "new" before SNIMap.__init__, then "ready" or "failed"
    context,                    \* SNIMap.context: None or the id of the default context
    contexts,                   \* every OpenSSL context built so far, by id (1..Len)
    negotiationDataForContext,  \* SNIMap._negotiationDataForContext: context id -> _NegotiationData
    connections,                \* every connection: its proxy, its raw Connection, its handshake
    pool,                       \* the connections the transport will accept
    lateSetterCalls,            \* negotiation setters called on established connections
    registrant,                 \* for the record: <<context, field, connection>>, the connection
                                \* whose proxy recorded the field's present value
    last                        \* the latest call into the code and what it returned

vars == <<mapping, acme_mapping, dispatcher, context, contexts,
          negotiationDataForContext, connections, pool, lateSetterCalls,
          registrant, last>>

None == {}
Some(v) == {v}
The(s) == CHOOSE v \in s : TRUE

----------------------------------------------------------------------------
(* Bounds and input sets *)

\* how many negotiation setters upstream code calls after a handshake
MaxLateSetterCalls == 1
MaxContexts == 3

Conns == {"c1", "c2"}

DEFAULT == "DEFAULT"
HostNames == {"a.example"}
Keys == HostNames \cup {DEFAULT}
\* what Connection.get_servername() can return: None, or the bytes the client sent
ServerNames == {None} \cup {Some(h) : h \in Keys}

H2 == <<"h", "2">>
HTTP11 == <<"h", "t", "t", "p", "/", "1", ".", "1">>
ACME_TLS_1 == <<"a", "c", "m", "e", "-", "t", "l", "s", "/", "1">>

\* first bytes of a connection: a ClientHello offering acme-tls/1, one offering
\* h2 only, and one that holds all but the last byte of the identifier
ChunkAcme == <<"0x16", "0x0a">> \o ACME_TLS_1 \o <<"0x00">>
ChunkH2 == <<"0x16", "0x02">> \o H2 \o <<"0x00">>
ChunkNear == <<"0x16", "0x0a">> \o SubSeq(ACME_TLS_1, 1, Len(ACME_TLS_1) - 1) \o <<"2">>
Chunks == {ChunkAcme, ChunkH2, ChunkNear}

\* ALPN protocol lists a client can offer
ProtocolLists == {<<H2>>, <<ACME_TLS_1>>, <<H2, ACME_TLS_1>>, <<ACME_TLS_1, HTTP11>>}

\* upstream callbacks and values handed to the four negotiation setters
NpnAdvertiseCallbacks == {"advertise"}
NpnSelectCallbacks == {"select"}
AlpnSelectCallbacks == {"chooseFirst", "chooseLast"}
AlpnProtocols == {"protos"}

\* values the TLS library refuses in a setter
Rejected == {"rejected"}

----------------------------------------------------------------------------
(* _detect_acme: ACME_TLS_1 in buf, a substring search *)

detect_acme(buf) ==
    \E i \in 1..(Len(buf) - Len(ACME_TLS_1) + 1) :
        SubSeq(buf, i, i + Len(ACME_TLS_1) - 1) = ACME_TLS_1

----------------------------------------------------------------------------
(* The hostname -> certificate maps.  A resolver is [cls, dir, keys]: its   *)
(* class, its directory, and the names whose PEM files are all present     *)
(* there.  A lookup returns [tag |-> "ok", bundle] or raises: tag is the   *)
(* exception's type.                                                       *)

Found(self, hostname) == [tag |-> "ok", bundle |-> [dir |-> self.dir, host |-> hostname]]
Raise(exc) == [tag |-> exc, bundle |-> [dir |-> "", host |-> ""]]

ReadFiles_or_default(self, hostname) ==
    IF hostname \in self.keys THEN Found(self, hostname)
    ELSE IF DEFAULT \in self.keys THEN Found(self, DEFAULT)
    ELSE Raise("KeyError")

\* FilePath.child(hostname).isfile()-guarded read of the files of `hostname`
ReadFiles(self, hostname) ==
    IF hostname \in self.keys THEN Found(self, hostname) ELSE Raise("KeyError")

\* hostname = None is replaced by b"DEFAULT" before the path is built
NormalizingGetItem(self, hostname) ==
    LET name == IF hostname = None THEN DEFAULT ELSE The(hostname)
    IN  ReadFiles(self, name)

\* directoryPath.child(hostname) is applied to the hostname as given:
\* child(None) raises TypeError before any file is looked at
PlainGetItem(self, hostname) ==
    IF hostname = None THEN Raise("TypeError") ELSE ReadFiles(self, The(hostname))

HostDirectoryMap_getitem(self, hostname) == NormalizingGetItem(self, hostname)
PerHostnameDirectoryMap_getitem(self, hostname) == NormalizingGetItem(self, hostname)
DehydratedMap_getitem(self, hostname) == NormalizingGetItem(self, hostname)
PerHostnameFilesMap_getitem(self, hostname) == PlainGetItem(self, hostname)
DehydratedAcmeMap_getitem(self, hostname) == PlainGetItem(self, hostname)

\* mapping[hostname]: dispatch on the resolver's class
GetItem(self, hostname) ==
    CASE self.cls = "HostDirectoryMap" -> HostDirectoryMap_getitem(self, hostname)
      [] self.cls = "PerHostnameDirectoryMap" -> PerHostnameDirectoryMap_getitem(self, hostname)
      [] self.cls = "DehydratedMap" -> DehydratedMap_getitem(self, hostname)
      [] self.cls = "PerHostnameFilesMap" -> PerHostnameFilesMap_getitem(self, hostname)
      [] self.cls = "DehydratedAcmeMap" -> DehydratedAcmeMap_getitem(self, hostname)

----------------------------------------------------------------------------
(* OpenSSL contexts and _NegotiationData *)

\* a context fresh from CertificateOptions.getContext(): nothing registered
NewContext(bundle) ==
    [bundle |-> bundle,
     servername_callback |-> None,
     npn_advertise_callback |-> None,
     npn_select_callback |-> None,
     alpn_select_callback |-> None,
     alpn_protos |-> None]

EmptyBundle == [dir |-> "CertificateOptions()", host |-> ""]

NegotiationData_init ==
    [npnAdvertiseCallback |-> None,
     npnSelectCallback |-> None,
     alpnSelectCallback |-> None,
     alpnProtocols |-> None]

\* what the TLS library does with a value handed to one of its setters: a
\* refused value raises and registers nothing
Refused(val) == val \in Rejected

NativeSet(ctxs, id, field, val, refused) ==
    IF refused
    THEN [ok |-> FALSE, ctxs |-> ctxs]
    ELSE [ok |-> TRUE, ctxs |-> [ctxs EXCEPT ![id][field] = Some(val)]]

\* the four negotiation setters of an OpenSSL context; the ALPN select callback
\* it is handed is always the wrapper function, which it takes as it is
set_npn_advertise_callback(ctxs, id, cb) ==
    NativeSet(ctxs, id, "npn_advertise_callback", cb, Refused(cb))
set_npn_select_callback(ctxs, id, cb) ==
    NativeSet(ctxs, id, "npn_select_callback", cb, Refused(cb))
set_alpn_select_callback(ctxs, id, cb) ==
    NativeSet(ctxs, id, "alpn_select_callback", cb, FALSE)
set_alpn_protos(ctxs, id, protos) ==
    NativeSet(ctxs, id, "alpn_protos", protos, Refused(protos))

negotiateNPN_unguarded(self, ctxs, id) ==
    [ok |-> TRUE,
     ctxs |-> [ctxs EXCEPT ![id].npn_advertise_callback = self.npnAdvertiseCallback,
                           ![id].npn_select_callback = self.npnSelectCallback],
     calls |-> <<"set_npn_advertise_callback", "set_npn_select_callback">>]

negotiateNPN_swallowing(self, ctxs, id) ==
    IF self.npnAdvertiseCallback = None \/ self.npnSelectCallback = None
    THEN [ok |-> TRUE, ctxs |-> ctxs, calls |-> <<>>]
    ELSE LET a == set_npn_advertise_callback(ctxs, id, The(self.npnAdvertiseCallback))
             b == set_npn_select_callback(a.ctxs, id, The(self.npnSelectCallback))
         IN  [ok |-> TRUE, ctxs |-> b.ctxs,
              calls |-> <<"set_npn_advertise_callback", "set_npn_select_callback">>]

\* _NegotiationData.negotiateNPN(context), lines 37-42: [ok, ctxs, calls], calls
\* being the setters it invoked on the context
negotiateNPN(self, ctxs, id) ==
    IF self.npnAdvertiseCallback = None \/ self.npnSelectCallback = None
    THEN [ok |-> TRUE, ctxs |-> ctxs, calls |-> <<>>]
    ELSE LET a == set_npn_advertise_callback(ctxs, id, The(self.npnAdvertiseCallback))
             b == set_npn_select_callback(a.ctxs, id, The(self.npnSelectCallback))
         IN  IF ~a.ok
             THEN [ok |-> FALSE, ctxs |-> a.ctxs, calls |-> <<"set_npn_advertise_callback">>]
             ELSE [ok |-> b.ok, ctxs |-> b.ctxs,
                   calls |-> <<"set_npn_advertise_callback", "set_npn_select_callback">>]

negotiateALPN_select_only(self, ctxs, id) ==
    IF self.alpnSelectCallback = None \/ self.alpnProtocols = None
    THEN [ok |-> TRUE, ctxs |-> ctxs, calls |-> <<>>]
    ELSE LET a == set_alpn_select_callback(ctxs, id, The(self.alpnSelectCallback))
         IN  [ok |-> a.ok, ctxs |-> a.ctxs, calls |-> <<"set_alpn_select_callback">>]

\* _NegotiationData.negotiateALPN(context), lines 44-49
negotiateALPN(self, ctxs, id) ==
    IF self.alpnSelectCallback = None \/ self.alpnProtocols = None
    THEN [ok |-> TRUE, ctxs |-> ctxs, calls |-> <<>>]
    ELSE LET a == set_alpn_select_callback(ctxs, id, The(self.alpnSelectCallback))
             b == set_alpn_protos(a.ctxs, id, The(self.alpnProtocols))
         IN  IF ~a.ok
             THEN [ok |-> FALSE, ctxs |-> a.ctxs, calls |-> <<"set_alpn_select_callback">>]
             ELSE [ok |-> b.ok, ctxs |-> b.ctxs,
                   calls |-> <<"set_alpn_select_callback", "set_alpn_protos">>]

\* collections.defaultdict(_NegotiationData): reading a missing key inserts it
DefaultDict(store, key) ==
    IF key \in DOMAIN store THEN store ELSE (key :> NegotiationData_init) @@ store

----------------------------------------------------------------------------
(* _ConnectionProxy.  A connection is                                       *)
(*   proxy:   the instance dictionary of the _ConnectionProxy,             *)
(*   obj:     the instance dictionary of the wrapped OpenSSL Connection,   *)
(*   context: the context the Connection holds (get_context/set_context),  *)
(*   state:   where its handshake stands,                                  *)
(*   servername: what get_servername() returns once the ClientHello is read,*)
(*   firstChunk: the first chunk written to it, for the record.            *)
(* An attribute that is not in an instance dictionary is None there.       *)

ProxyAttrs == {"_obj", "_factory", "_acme_tls_1", "bio_write"}
ObjAttrs == {"_acme_tls_1", "bio_write"}

NoConnection ==
    [exists |-> FALSE,
     proxy |-> [a \in ProxyAttrs |-> None],
     obj |-> [a \in ObjAttrs |-> None],
     context |-> 0,
     state |-> "NONE",
     servername |-> None,
     firstChunk |-> None]

\* _ConnectionProxy.__setattr__, lines 103-107
ConnectionProxy_setattr(conn, attr, val) ==
    IF attr \in {"_obj", "_factory"}
    THEN [conn EXCEPT !.proxy[attr] = Some(val)]
    ELSE [conn EXCEPT !.obj[attr] = Some(val)]

\* getattr(self._obj, attr): the Connection's instance dictionary, then its class
Connection_getattr(conn, attr) ==
    IF conn.obj[attr] # None THEN The(conn.obj[attr]) ELSE "Connection." \o attr

\* attribute lookup on the proxy: its instance dictionary, then its class (which
\* defines bio_write), then __getattr__, lines 100-101
ConnectionProxy_getattr(conn, attr) ==
    IF conn.proxy[attr] # None THEN The(conn.proxy[attr])
    ELSE IF attr = "bio_write" THEN "_ConnectionProxy.bio_write"
    ELSE Connection_getattr(conn, attr)

\* _ConnectionProxy.__init__, lines 79-82, around Connection(context, None)
ConnectionProxy_init(original, factory) ==
    LET c0 == [NoConnection EXCEPT !.exists = TRUE, !.context = original, !.state = "INIT"]
        c1 == ConnectionProxy_setattr(c0, "_obj", "Connection")
        c2 == ConnectionProxy_setattr(c1, "_factory", factory)
    IN  ConnectionProxy_setattr(c2, "_acme_tls_1", FALSE)

\* _ConnectionProxy.bio_write, lines 92-98
ConnectionProxy_bio_write(conn, buf) ==
    LET c1 == ConnectionProxy_setattr(conn, "_acme_tls_1", detect_acme(buf))
    IN  ConnectionProxy_setattr(c1, "bio_write", Connection_getattr(c1, "bio_write"))

\* proxy.bio_write(buf), as TLSMemoryBIOProtocol.dataReceived calls it: whatever
\* the name bio_write resolves to on the proxy is what runs
CallBioWrite(conn, buf) ==
    IF ConnectionProxy_getattr(conn, "bio_write") = "_ConnectionProxy.bio_write"
    THEN ConnectionProxy_bio_write(conn, buf)
    ELSE conn

\* connection._acme_tls_1, read off the Connection
AcmeFlag(conn) == Connection_getattr(conn, "_acme_tls_1")

----------------------------------------------------------------------------
(* _ContextProxy: the setters record in the factory, then register          *)
(* natively, lines 123-142.  Each returns [ok, ctxs, store].                *)

Record(store, obj, field, val) ==
    [DefaultDict(store, obj) EXCEPT ![obj][field] = Some(val)]

\* SNIMap._npnAdvertiseCallbackForContext and its three siblings, lines 218-230
npnAdvertiseCallbackForContext(store, ctx, callback) ==
    Record(store, ctx, "npnAdvertiseCallback", callback)
npnSelectCallbackForContext(store, ctx, callback) ==
    Record(store, ctx, "npnSelectCallback", callback)
alpnSelectCallbackForContext(store, ctx, callback) ==
    Record(store, ctx, "alpnSelectCallback", callback)
alpnProtocolsForContext(store, ctx, protocols) ==
    Record(store, ctx, "alpnProtocols", protocols)

\* the closure alpn_callback of lines 133-135, which remembers cb
alpn_callback(cb) == [name |-> "alpn_callback", cb |-> cb]

ContextProxy_set_npn_advertise_callback(obj, ctxs, store, cb) ==
    LET r == set_npn_advertise_callback(ctxs, obj, cb)
    IN  [ok |-> r.ok, ctxs |-> r.ctxs,
         store |-> npnAdvertiseCallbackForContext(store, obj, cb)]

ContextProxy_set_npn_select_callback(obj, ctxs, store, cb) ==
    LET r == set_npn_select_callback(ctxs, obj, cb)
    IN  [ok |-> r.ok, ctxs |-> r.ctxs,
         store |-> npnSelectCallbackForContext(store, obj, cb)]

ContextProxy_set_alpn_select_callback(obj, ctxs, store, cb) ==
    LET r == set_alpn_select_callback(ctxs, obj, alpn_callback(cb))
    IN  [ok |-> r.ok, ctxs |-> r.ctxs,
         store |-> alpnSelectCallbackForContext(store, obj, alpn_callback(cb))]

ContextProxy_set_alpn_protos(obj, ctxs, store, protocols) ==
    LET r == set_alpn_protos(ctxs, obj, protocols)
    IN  [ok |-> r.ok, ctxs |-> r.ctxs,
         store |-> alpnProtocolsForContext(store, obj, protocols)]

\* _ConnectionProxy.get_context, lines 84-90: a _ContextProxy around the context
\* the Connection holds now; the value is the context the wrapper wraps
ConnectionProxy_get_context(conn) == [wrapper |-> "_ContextProxy", obj |-> conn.context]

----------------------------------------------------------------------------
(* SNIMap *)

SNIMap_init_uncaught(m) ==
    LET found == GetItem(m, Some(DEFAULT))
    IN  IF found.tag = "ok"
        THEN [result |-> "ok", context |-> Some(1),
              contexts |-> <<[NewContext(found.bundle) EXCEPT
                                !.servername_callback = Some("selectContext")]>>]
        ELSE [result |-> found.tag, context |-> None, contexts |-> <<>>]

\* SNIMap.__init__, lines 158-171: [result, context, contexts]
SNIMap_init(m) ==
    LET found == GetItem(m, Some(DEFAULT))
        ctx == IF found.tag = "ok" THEN NewContext(found.bundle) ELSE NewContext(EmptyBundle)
    IN  IF found.tag \in {"ok", "KeyError"}
        THEN [result |-> "ok", context |-> Some(1),
              contexts |-> <<[ctx EXCEPT !.servername_callback = Some("selectContext")]>>]
        ELSE [result |-> found.tag, context |-> None, contexts |-> <<>>]

\* an upstream ALPN select callback applied to (connection, protocols)
CallUpstream(cb, protocols) ==
    IF cb = "chooseFirst" THEN protocols[1] ELSE protocols[Len(protocols)]

Contains(protocols, p) == \E i \in 1..Len(protocols) : protocols[i] = p

selectAlpn_delegating(acme, default, conn, protocols) ==
    [value |-> CallUpstream(default.cb, default.protocols), defaultCalls |-> 1]

selectAlpn_unflagged(acme, default, conn, protocols) ==
    IF ~Contains(protocols, ACME_TLS_1) \/ acme = None
    THEN [value |-> CallUpstream(default.cb, default.protocols), defaultCalls |-> 1]
    ELSE [value |-> ACME_TLS_1, defaultCalls |-> 0]

selectAlpn_default_first(acme, default, conn, protocols) ==
    IF \/ ~Contains(protocols, ACME_TLS_1)
       \/ acme = None
       \/ ~AcmeFlag(conn)
    THEN [value |-> CallUpstream(default.cb, default.protocols), defaultCalls |-> 1]
    ELSE [value |-> ACME_TLS_1, defaultCalls |-> 1]

\* SNIMap.selectAlpn(default, connection, protocols), lines 173-189; default is
\* the thunk lambda: cb(connection, protocols), given as [cb, protocols].
\* Returns the value and how often default was called.
selectAlpn(acme, default, conn, protocols) ==
    IF \/ ~Contains(protocols, ACME_TLS_1)
       \/ acme = None
       \/ ~AcmeFlag(conn)
    THEN [value |-> CallUpstream(default.cb, default.protocols), defaultCalls |-> 1]
    ELSE [value |-> ACME_TLS_1, defaultCalls |-> 0]

\* alpn_callback(connection, protocols), lines 133-135: the wrapper registered
\* in place of cb hands selectAlpn the thunk and OpenSSL's arguments
alpn_callback_call(acme, wrapper, conn, protocols) ==
    selectAlpn(acme, [cb |-> wrapper.cb, protocols |-> protocols], conn, protocols)

ChooseMapping_primary(m, acme, conn) == m

ChooseMapping_acme_first(m, acme, conn) == IF acme # None THEN The(acme) ELSE m

\* lines 192-194 of selectContext: which resolver is consulted
ChooseMapping(m, acme, conn) ==
    IF AcmeFlag(conn) /\ acme # None THEN The(acme) ELSE m

selectContext_eager(m, acme, ctxs, store, conn, servername) ==
    LET chosen == ChooseMapping(m, acme, conn)
        oldContext == conn.context
        store1 == DefaultDict(store, oldContext)
        negotiationData == store1[oldContext]
        found == GetItem(chosen, servername)
        newContext == Len(ctxs) + 1
        built == Append(ctxs, NewContext(found.bundle))
        npn == negotiateNPN(negotiationData, built, newContext)
        alpn == negotiateALPN(negotiationData, npn.ctxs, newContext)
    IN  IF found.tag # "ok"
        THEN [result |-> found.tag, conn |-> conn, ctxs |-> ctxs, store |-> store1,
              oldContext |-> oldContext, lookups |-> 1, calls |-> <<>>]
        ELSE IF ~(npn.ok /\ alpn.ok)
        THEN [result |-> "SetterError", conn |-> conn, ctxs |-> alpn.ctxs, store |-> store1,
              oldContext |-> oldContext, lookups |-> 1, calls |-> npn.calls \o alpn.calls]
        ELSE [result |-> "ok", conn |-> [conn EXCEPT !.context = newContext],
              ctxs |-> alpn.ctxs, store |-> store1,
              oldContext |-> oldContext, lookups |-> 1, calls |-> npn.calls \o alpn.calls]

\* SNIMap.selectContext(connection), lines 191-203, with servername what
\* connection.get_servername() returns.
\* Returns [result, conn, ctxs, store, oldContext, lookups, calls].
selectContext(m, acme, ctxs, store, conn, servername) ==
    LET chosen == ChooseMapping(m, acme, conn)
        oldContext == conn.context
        found == GetItem(chosen, servername)
        newContext == Len(ctxs) + 1
        built == Append(ctxs, NewContext(found.bundle))
        store1 == DefaultDict(store, oldContext)
        negotiationData == store1[oldContext]
        npn == negotiateNPN(negotiationData, built, newContext)
        alpn == negotiateALPN(negotiationData, npn.ctxs, newContext)
    IN  IF found.tag # "ok"
        THEN [result |-> found.tag, conn |-> conn, ctxs |-> ctxs, store |-> store,
              oldContext |-> oldContext, lookups |-> 1, calls |-> <<>>]
        ELSE IF ~npn.ok
        THEN [result |-> "SetterError", conn |-> conn, ctxs |-> npn.ctxs, store |-> store1,
              oldContext |-> oldContext, lookups |-> 1, calls |-> npn.calls]
        ELSE IF ~alpn.ok
        THEN [result |-> "SetterError", conn |-> conn, ctxs |-> alpn.ctxs, store |-> store1,
              oldContext |-> oldContext, lookups |-> 1, calls |-> npn.calls \o alpn.calls]
        ELSE [result |-> "ok", conn |-> [conn EXCEPT !.context = newContext],
              ctxs |-> alpn.ctxs, store |-> store1,
              oldContext |-> oldContext, lookups |-> 1, calls |-> npn.calls \o alpn.calls]

serverConnectionForTLS_latest(ctx) == ConnectionProxy_init(Len(contexts), "SNIMap")

\* SNIMap.serverConnectionForTLS, lines 205-216
serverConnectionForTLS(ctx) == ConnectionProxy_init(The(ctx), "SNIMap")

----------------------------------------------------------------------------
(* The state machine *)

NoCall ==
    [op |-> "none", conn |-> "", result |-> "", servername |-> None, oldContext |-> 0,
     acme |-> FALSE, lookups |-> 0, calls |-> <<>>, protocols |-> <<>>, upstream |-> "",
     returned |-> <<>>, defaultCalls |-> 0]

Resolvers(classes, dir) ==
    [cls : classes, dir : {dir}, keys : SUBSET Keys]

\* the resolver pairs the endpoint parsers of src/txsni/parser.py build
\* (SNIDirectoryParser, AcmeSNIParser), the pair of src/txsni/dehydrated.py, and
\* a dispatcher without an ACME resolver (acme_mapping=None)
Configurations ==
    {<<"HostDirectoryMap", Some("HostDirectoryMap")>>,
     <<"PerHostnameDirectoryMap", Some("PerHostnameFilesMap")>>,
     <<"DehydratedMap", Some("DehydratedAcmeMap")>>,
     <<"HostDirectoryMap", None>>}

Init ==
    /\ \E cfg \in Configurations :
         /\ mapping \in Resolvers({cfg[1]}, "certs")
         /\ acme_mapping \in {None} \cup {Some(r) : r \in Resolvers(cfg[2], "acme")}
         /\ (acme_mapping = None) = (cfg[2] = None)
    /\ dispatcher = "new"
    /\ context = None
    /\ contexts = <<>>
    /\ negotiationDataForContext = <<>>
    /\ connections = [c \in Conns |-> NoConnection]
    /\ pool = {"c1"}
    /\ lateSetterCalls = 0
    /\ registrant = {}
    /\ last = NoCall

\* SNIMap(mapping, acme_mapping)
Construct ==
    /\ dispatcher = "new"
    /\ LET r == SNIMap_init(mapping)
       IN  /\ dispatcher' = IF r.result = "ok" THEN "ready" ELSE "failed"
           /\ context' = r.context
           /\ contexts' = r.contexts
           /\ last' = [NoCall EXCEPT !.op = "SNIMap", !.result = r.result]
    /\ UNCHANGED <<mapping, acme_mapping, negotiationDataForContext, connections,
                   pool, lateSetterCalls, registrant>>

\* the transport accepts a connection
ServerConnectionForTLS(c) ==
    /\ dispatcher = "ready"
    /\ c \in pool
    /\ ~connections[c].exists
    /\ connections' = [connections EXCEPT ![c] = serverConnectionForTLS(context)]
    /\ last' = [NoCall EXCEPT !.op = "serverConnectionForTLS", !.conn = c, !.result = "ok"]
    /\ UNCHANGED <<mapping, acme_mapping, dispatcher, context, contexts,
                   negotiationDataForContext, pool, lateSetterCalls, registrant>>

\* the transport hands a chunk of inbound bytes to the connection.  Inside
\* OpenSSL's processing of the ClientHello (between the SNI callback and the
\* ALPN callback) no bytes arrive.
BioWrite(c, buf) ==
    /\ connections[c].exists
    /\ connections[c].state \in {"INIT", "ALPN_DECIDED", "HANDSHAKE_COMPLETE"}
    /\ LET conn == CallBioWrite(connections[c], buf)
       IN  connections' = [connections EXCEPT ![c] =
               [conn EXCEPT !.firstChunk = IF @ = None THEN Some(buf) ELSE @]]
    /\ last' = [NoCall EXCEPT !.op = "bio_write", !.conn = c, !.result = "ok",
                              !.acme = AcmeFlag(connections[c])]
    /\ UNCHANGED <<mapping, acme_mapping, dispatcher, context, contexts,
                   negotiationDataForContext, pool, lateSetterCalls, registrant>>

\* the field of _NegotiationData each setter of the proxy records
RecordedField(op) ==
    CASE op = "set_npn_advertise_callback" -> "npnAdvertiseCallback"
      [] op = "set_npn_select_callback" -> "npnSelectCallback"
      [] op = "set_alpn_select_callback" -> "alpnSelectCallback"
      [] op = "set_alpn_protos" -> "alpnProtocols"

\* upstream code calls one of the four setters on connection.get_context()
Setter(c, op, r) ==
    /\ contexts' = r.ctxs
    /\ registrant' =
           {t \in registrant : ~(t[1] = connections[c].context /\ t[2] = RecordedField(op))}
           \cup {<<connections[c].context, RecordedField(op), c>>}
    /\ negotiationDataForContext' = r.store
    /\ lateSetterCalls' = lateSetterCalls + (IF connections[c].state = "INIT" THEN 0 ELSE 1)
    /\ last' = [NoCall EXCEPT !.op = op, !.conn = c,
                              !.result = IF r.ok THEN "ok" ELSE "SetterError",
                              !.oldContext = connections[c].context]
    /\ UNCHANGED <<mapping, acme_mapping, dispatcher, context, connections, pool>>

\* upstream code configures negotiation when the connection is set up, before
\* any byte has arrived, and may do so again on an established connection
CanSet(c) ==
    /\ connections[c].exists
    /\ \/ connections[c].state = "INIT" /\ connections[c].firstChunk = None
       \/ connections[c].state = "HANDSHAKE_COMPLETE" /\ lateSetterCalls < MaxLateSetterCalls

SetNpnAdvertiseCallback(c, cb) ==
    /\ CanSet(c)
    /\ Setter(c, "set_npn_advertise_callback",
              ContextProxy_set_npn_advertise_callback(
                  ConnectionProxy_get_context(connections[c]).obj,
                  contexts, negotiationDataForContext, cb))

SetNpnSelectCallback(c, cb) ==
    /\ CanSet(c)
    /\ Setter(c, "set_npn_select_callback",
              ContextProxy_set_npn_select_callback(
                  ConnectionProxy_get_context(connections[c]).obj,
                  contexts, negotiationDataForContext, cb))

SetAlpnSelectCallback(c, cb) ==
    /\ CanSet(c)
    /\ Setter(c, "set_alpn_select_callback",
              ContextProxy_set_alpn_select_callback(
                  ConnectionProxy_get_context(connections[c]).obj,
                  contexts, negotiationDataForContext, cb))

SetAlpnProtos(c, protocols) ==
    /\ CanSet(c)
    /\ Setter(c, "set_alpn_protos",
              ContextProxy_set_alpn_protos(
                  ConnectionProxy_get_context(connections[c]).obj,
                  contexts, negotiationDataForContext, protocols))

\* OpenSSL has read the ClientHello and calls the servername callback
ServernameCallback(c, servername) ==
    /\ connections[c].exists
    /\ connections[c].state = "INIT"
    /\ connections[c].firstChunk # None
    /\ \/ contexts[connections[c].context].servername_callback = Some("selectContext")
       \/ contexts[The(context)].servername_callback = Some("selectContext")
    /\ LET r == selectContext(mapping, acme_mapping, contexts, negotiationDataForContext,
                              connections[c], servername)
       IN  /\ contexts' = r.ctxs
           /\ negotiationDataForContext' = r.store
           /\ connections' = [connections EXCEPT ![c] =
                  [r.conn EXCEPT !.state = IF r.result = "ok" THEN "SNI_RESOLVED" ELSE "FAILED",
                                 !.servername = servername]]
           /\ last' = [NoCall EXCEPT !.op = "selectContext", !.conn = c, !.result = r.result,
                                     !.servername = servername, !.oldContext = r.oldContext,
                                     !.acme = AcmeFlag(connections[c]),
                                     !.lookups = r.lookups, !.calls = r.calls]
    /\ UNCHANGED <<mapping, acme_mapping, dispatcher, context, pool, lateSetterCalls, registrant>>

\* OpenSSL calls the ALPN select callback registered on the connection's context
AlpnSelectCallback(c, protocols) ==
    /\ connections[c].exists
    /\ connections[c].state = "SNI_RESOLVED"
    /\ contexts[connections[c].context].alpn_select_callback # None
    /\ LET wrapper == The(contexts[connections[c].context].alpn_select_callback)
           r == alpn_callback_call(acme_mapping, wrapper, connections[c], protocols)
       IN  last' = [NoCall EXCEPT !.op = "selectAlpn", !.conn = c, !.result = "ok",
                                  !.acme = AcmeFlag(connections[c]),
                                  !.protocols = protocols, !.upstream = wrapper.cb,
                                  !.returned = r.value, !.defaultCalls = r.defaultCalls]
    /\ connections' = [connections EXCEPT ![c].state = "ALPN_DECIDED"]
    /\ UNCHANGED <<mapping, acme_mapping, dispatcher, context, contexts,
                   negotiationDataForContext, pool, lateSetterCalls, registrant>>

\* the handshake finishes, with or without an ALPN decision
HandshakeComplete(c) ==
    /\ connections[c].exists
    /\ connections[c].state \in {"SNI_RESOLVED", "ALPN_DECIDED"}
    /\ connections' = [connections EXCEPT ![c].state = "HANDSHAKE_COMPLETE"]
    /\ last' = [NoCall EXCEPT !.op = "handshake", !.conn = c, !.result = "ok"]
    /\ UNCHANGED <<mapping, acme_mapping, dispatcher, context, contexts,
                   negotiationDataForContext, pool, lateSetterCalls, registrant>>

Next ==
    \/ Construct
    \/ \E c \in Conns : ServerConnectionForTLS(c)
    \/ \E c \in Conns, buf \in Chunks : BioWrite(c, buf)
    \/ \E c \in Conns, cb \in NpnAdvertiseCallbacks : SetNpnAdvertiseCallback(c, cb)
    \/ \E c \in Conns, cb \in NpnSelectCallbacks : SetNpnSelectCallback(c, cb)
    \/ \E c \in Conns, cb \in AlpnSelectCallbacks : SetAlpnSelectCallback(c, cb)
    \/ \E c \in Conns, protocols \in AlpnProtocols : SetAlpnProtos(c, protocols)
    \/ \E c \in Conns, servername \in ServerNames : ServernameCallback(c, servername)
    \/ \E c \in Conns, protocols \in ProtocolLists : AlpnSelectCallback(c, protocols)
    \/ \E c \in Conns : HandshakeComplete(c)

Spec == Init /\ [][Next]_vars

\* the client of an established connection starts a new handshake on it
\* (renegotiation); the contexts one run builds are capped
Renegotiate(c) ==
    /\ connections[c].exists
    /\ connections[c].state = "HANDSHAKE_COMPLETE"
    /\ Len(contexts) < MaxContexts
    /\ connections' = [connections EXCEPT ![c].state = "INIT"]
    /\ last' = [NoCall EXCEPT !.op = "renegotiate", !.conn = c, !.result = "ok"]
    /\ UNCHANGED <<mapping, acme_mapping, dispatcher, context, contexts,
                   negotiationDataForContext, pool, lateSetterCalls, registrant>>

\* Two connections served by one dispatcher whose certs directory holds
\* a.example and whose acme directory holds DEFAULT; upstream code negotiates
\* ALPN only
InitTwo ==
    /\ mapping = [cls |-> "HostDirectoryMap", dir |-> "certs", keys |-> {"a.example"}]
    /\ acme_mapping = Some([cls |-> "HostDirectoryMap", dir |-> "acme", keys |-> {DEFAULT}])
    /\ dispatcher = "new"
    /\ context = None
    /\ contexts = <<>>
    /\ negotiationDataForContext = <<>>
    /\ connections = [c \in Conns |-> NoConnection]
    /\ pool = Conns
    /\ lateSetterCalls = 0
    /\ registrant = {}
    /\ last = NoCall

ChunksTwo == {ChunkAcme, ChunkH2}
ProtocolListsTwo == {<<H2, ACME_TLS_1>>}
AlpnSelectCallbacksTwo == {"chooseFirst"}

NextTwo ==
    \/ Construct
    \/ \E c \in Conns : ServerConnectionForTLS(c)
    \/ \E c \in Conns, buf \in ChunksTwo : BioWrite(c, buf)
    \/ \E c \in Conns, cb \in AlpnSelectCallbacksTwo : SetAlpnSelectCallback(c, cb)
    \/ \E c \in Conns, protocols \in AlpnProtocols : SetAlpnProtos(c, protocols)
    \/ \E c \in Conns, servername \in ServerNames : ServernameCallback(c, servername)
    \/ \E c \in Conns, protocols \in ProtocolListsTwo : AlpnSelectCallback(c, protocols)
    \/ \E c \in Conns : HandshakeComplete(c)

SpecTwo == InitTwo /\ [][NextTwo]_vars

\* One connection that may renegotiate, on a dispatcher whose certs directory
\* holds a.example and DEFAULT and whose acme directory holds DEFAULT
InitReneg ==
    /\ mapping = [cls |-> "HostDirectoryMap", dir |-> "certs", keys |-> Keys]
    /\ acme_mapping = Some([cls |-> "HostDirectoryMap", dir |-> "acme", keys |-> {DEFAULT}])
    /\ dispatcher = "new"
    /\ context = None
    /\ contexts = <<>>
    /\ negotiationDataForContext = <<>>
    /\ connections = [c \in Conns |-> NoConnection]
    /\ pool = {"c1"}
    /\ lateSetterCalls = 0
    /\ registrant = {}
    /\ last = NoCall

NextReneg ==
    \/ Construct
    \/ \E c \in Conns : ServerConnectionForTLS(c)
    \/ \E c \in Conns, buf \in ChunksTwo : BioWrite(c, buf)
    \/ \E c \in Conns, cb \in NpnAdvertiseCallbacks : SetNpnAdvertiseCallback(c, cb)
    \/ \E c \in Conns, cb \in NpnSelectCallbacks : SetNpnSelectCallback(c, cb)
    \/ \E c \in Conns, cb \in AlpnSelectCallbacksTwo : SetAlpnSelectCallback(c, cb)
    \/ \E c \in Conns, protocols \in AlpnProtocols : SetAlpnProtos(c, protocols)
    \/ \E c \in Conns, servername \in ServerNames : ServernameCallback(c, servername)
    \/ \E c \in Conns, protocols \in ProtocolListsTwo : AlpnSelectCallback(c, protocols)
    \/ \E c \in Conns : HandshakeComplete(c)
    \/ \E c \in Conns : Renegotiate(c)

SpecReneg == InitReneg /\ [][NextReneg]_vars

\* One connection on the same dispatcher, whose upstream code may hand the
\* setters values the TLS library refuses
NextReject ==
    \/ Construct
    \/ \E c \in Conns : ServerConnectionForTLS(c)
    \/ \E c \in Conns, buf \in ChunksTwo : BioWrite(c, buf)
    \/ \E c \in Conns, cb \in NpnAdvertiseCallbacks \cup Rejected :
           SetNpnAdvertiseCallback(c, cb)
    \/ \E c \in Conns, cb \in NpnSelectCallbacks \cup Rejected : SetNpnSelectCallback(c, cb)
    \/ \E c \in Conns, cb \in AlpnSelectCallbacksTwo : SetAlpnSelectCallback(c, cb)
    \/ \E c \in Conns, protocols \in AlpnProtocols \cup Rejected : SetAlpnProtos(c, protocols)
    \/ \E c \in Conns, servername \in ServerNames : ServernameCallback(c, servername)
    \/ \E c \in Conns, protocols \in ProtocolListsTwo : AlpnSelectCallback(c, protocols)
    \/ \E c \in Conns : HandshakeComplete(c)

SpecReject == InitReneg /\ [][NextReject]_vars

----------------------------------------------------------------------------
(* Properties *)

\* the resolver a selectContext call that read the flag `acme` has to consult
Consulted(acme) == IF acme /\ acme_mapping # None THEN The(acme_mapping) ELSE mapping

NativeField(field) ==
    CASE field = "npnAdvertiseCallback" -> "npn_advertise_callback"
      [] field = "npnSelectCallback" -> "npn_select_callback"
      [] field = "alpnSelectCallback" -> "alpn_select_callback"
      [] field = "alpnProtocols" -> "alpn_protos"

NegotiationFields ==
    {"npnAdvertiseCallback", "npnSelectCallback", "alpnSelectCallback", "alpnProtocols"}

\* the latest call was a selectContext that swapped the context
Swapped == last.op = "selectContext" /\ last.result = "ok"

\* C1: after any chunks written through the proxy, the connection's ACME flag
\* says whether the FIRST chunk contains acme-tls/1 (false before any chunk);
\* later chunks change nothing.
C1_FlagIsFirstChunk ==
    \A c \in Conns :
        connections[c].exists =>
            AcmeFlag(connections[c]) =
                (/\ connections[c].firstChunk # None
                 /\ detect_acme(The(connections[c].firstChunk)))

\* C2: a selectContext for a hostname that has an entry in the resolver chosen
\* for the connection ends with the connection on a newly built context made
\* from exactly that resolver's bundle for the hostname, different from the
\* context that was active before.
C2_SwapToResolvedBundle ==
    (/\ last.op = "selectContext"
     /\ last.servername # None
     /\ The(last.servername) \in Consulted(last.acme).keys)
    => LET new == connections[last.conn].context
       IN  /\ last.result = "ok"
           /\ new # last.oldContext
           /\ new = Len(contexts)
           /\ new # The(context)
           /\ \A d \in Conns \ {last.conn} : connections[d].context # new
           /\ contexts[new].bundle =
                  [dir |-> Consulted(last.acme).dir, host |-> The(last.servername)]

C2_Witness ==
    /\ Swapped
    /\ last.acme
    /\ last.servername = Some("a.example")
    /\ contexts[connections[last.conn].context].bundle = [dir |-> "acme", host |-> "a.example"]

\* C3: a selectContext for a hostname without an entry in the consulted resolver
\* fails with KeyError after one lookup, and the connection's context and ACME
\* flag are what they were before the call.
C3_LookupFailureLeavesSession ==
    (/\ last.op = "selectContext"
     /\ last.servername # None
     /\ The(last.servername) \notin Consulted(last.acme).keys)
    => /\ last.result = "KeyError"
       /\ last.lookups = 1
       /\ connections[last.conn].context = last.oldContext
       /\ AcmeFlag(connections[last.conn]) = last.acme

C3_Witness ==
    /\ last.op = "selectContext"
    /\ last.result = "KeyError"
    /\ last.servername = Some("a.example")
    /\ last.acme
    /\ "a.example" \in mapping.keys

\* C4: when acme-tls/1 is offered, the connection's ACME flag is set and an ACME
\* resolver is configured, selectAlpn returns acme-tls/1 whatever the upstream
\* callback would have chosen.
C4_AcmeOverride ==
    (/\ last.op = "selectAlpn"
     /\ Contains(last.protocols, ACME_TLS_1)
     /\ last.acme
     /\ acme_mapping # None)
    => last.returned = ACME_TLS_1

C4_Witness ==
    /\ last.op = "selectAlpn"
    /\ last.acme
    /\ acme_mapping # None
    /\ last.returned = ACME_TLS_1
    /\ CallUpstream(last.upstream, last.protocols) = H2

\* C5: when acme-tls/1 is not offered, or no ACME resolver is configured, or the
\* connection's ACME flag is false, selectAlpn returns what the upstream ALPN
\* select callback returns for the offered protocols, having called it once.
C5_Delegation ==
    (/\ last.op = "selectAlpn"
     /\ \/ ~Contains(last.protocols, ACME_TLS_1)
        \/ acme_mapping = None
        \/ ~last.acme)
    => /\ last.returned = CallUpstream(last.upstream, last.protocols)
       /\ last.defaultCalls = 1

C5_Witness ==
    /\ last.op = "selectAlpn"
    /\ Contains(last.protocols, ACME_TLS_1)
    /\ acme_mapping # None
    /\ ~last.acme
    /\ last.returned = H2

\* C6: when all four negotiation settings were registered through the proxy
\* against context A, a swap from A to B leaves all four active on B with the
\* values active on A.
C6_RoundTrip ==
    Swapped =>
        LET A == last.oldContext
            B == connections[last.conn].context
        IN  (\A f \in NegotiationFields : negotiationDataForContext[A][f] # None)
            => \A f \in NegotiationFields :
                   /\ contexts[B][NativeField(f)] # None
                   /\ contexts[B][NativeField(f)] = contexts[A][NativeField(f)]
                   /\ contexts[B][NativeField(f)] = negotiationDataForContext[A][f]

C6_Witness ==
    /\ Swapped
    /\ \A f \in NegotiationFields : negotiationDataForContext[last.oldContext][f] # None
    /\ contexts[connections[last.conn].context].alpn_select_callback
           = Some(alpn_callback("chooseLast"))

\* C7: every negotiation field recorded against the old context is set on the
\* new context with its recorded value by a swap, also when only one field of
\* the NPN pair or of the ALPN pair was recorded.
C7_EveryRecordedFieldApplied ==
    Swapped =>
        \A f \in NegotiationFields :
            negotiationDataForContext[last.oldContext][f] # None
            => contexts[connections[last.conn].context][NativeField(f)]
                   = negotiationDataForContext[last.oldContext][f]

\* C8: when nothing was recorded against the old context, a swap invokes none of
\* the four negotiation setters on the new context, which is as it was built.
C8_NothingRecordedNothingSet ==
    Swapped =>
        (negotiationDataForContext[last.oldContext] = NegotiationData_init
         => /\ last.calls = <<>>
            /\ \E b \in [dir : {"certs", "acme"}, host : Keys] :
                   contexts[connections[last.conn].context] = NewContext(b))

C8_Witness ==
    /\ Swapped
    /\ negotiationDataForContext[last.oldContext] = NegotiationData_init
    /\ last.calls = <<>>

\* C9: constructing the dispatcher succeeds with or without a DEFAULT entry in
\* the primary resolver; its default context is built from the DEFAULT bundle
\* when there is one and is an empty placeholder otherwise, and selectContext
\* is its servername callback.
C9_ConstructionSucceeds ==
    dispatcher # "new" =>
        /\ dispatcher = "ready"
        /\ context # None
        /\ contexts[The(context)].servername_callback = Some("selectContext")
        /\ contexts[The(context)].bundle =
               IF DEFAULT \in mapping.keys
               THEN [dir |-> mapping.dir, host |-> DEFAULT]
               ELSE EmptyBundle

C9_Witness ==
    /\ dispatcher = "ready"
    /\ DEFAULT \notin mapping.keys
    /\ contexts[The(context)].bundle = EmptyBundle
    /\ last.op = "SNIMap"

\* C10: in every resolver selectContext consults, a lookup with an absent
\* hostname (None) behaves like a lookup of DEFAULT: the DEFAULT bundle when
\* there is one, KeyError otherwise.
C10_AbsentHostnameIsDefault ==
    (last.op = "selectContext" /\ last.servername = None)
    => IF DEFAULT \in Consulted(last.acme).keys
       THEN /\ last.result = "ok"
            /\ contexts[connections[last.conn].context].bundle =
                   [dir |-> Consulted(last.acme).dir, host |-> DEFAULT]
       ELSE last.result = "KeyError"

\* C11: selectContext consults exactly one resolver per call, the ACME resolver
\* when the connection's ACME flag is set and an ACME resolver is configured and
\* the primary resolver otherwise; a hostname the consulted resolver lacks fails
\* even when the other resolver has it.
C11_OneResolverNoFallback ==
    last.op = "selectContext" =>
        /\ last.lookups = 1
        /\ last.result = "ok" =>
               contexts[connections[last.conn].context].bundle.dir = Consulted(last.acme).dir
        /\ last.servername # None =>
               (last.result = "ok") = (The(last.servername) \in Consulted(last.acme).keys)

C11_Witness ==
    /\ last.op = "selectContext"
    /\ ~last.acme
    /\ acme_mapping # None
    /\ last.servername = Some("a.example")
    /\ "a.example" \in The(acme_mapping).keys
    /\ "a.example" \notin mapping.keys
    /\ last.result = "KeyError"
    /\ connections[last.conn].context = The(context)

\* C12: whenever selectAlpn overrides with acme-tls/1, the connection's active
\* context is the one selectContext built from the ACME resolver's bundle for
\* the requested hostname.
C12_OverrideOnAcmeContext ==
    (/\ last.op = "selectAlpn"
     /\ last.defaultCalls = 0
     /\ last.returned = ACME_TLS_1)
    => /\ acme_mapping # None
       /\ connections[last.conn].context # The(context)
       /\ contexts[connections[last.conn].context].bundle =
              [dir |-> The(acme_mapping).dir,
               host |-> IF connections[last.conn].servername = None
                        THEN DEFAULT
                        ELSE The(connections[last.conn].servername)]

C12_Witness ==
    /\ last.op = "selectAlpn"
    /\ last.defaultCalls = 0
    /\ last.returned = ACME_TLS_1
    /\ connections[last.conn].servername = None
    /\ contexts[connections[last.conn].context].bundle = [dir |-> "acme", host |-> DEFAULT]

\* the connections whose proxies recorded the values now held in the store
\* under a context
Registrants(ctx) == {t[3] : t \in {u \in registrant : u[1] = ctx}}

\* C13 as stated: with two connections on one dispatcher, every negotiation
\* setting a swap applies to a connection's new context was registered through
\* that connection's own context proxy, never by another connection.
C13_OnlyOwnSettingsApplied ==
    Swapped =>
        \A f \in NegotiationFields :
            contexts[connections[last.conn].context][NativeField(f)] # None
            => <<last.oldContext, f, last.conn>> \in registrant

\* C13, amended: the settings a swap applies to the new context are the ones
\* recorded in the store under the connection's old context, whichever
\* connection registered them there: nothing else is applied, and a pair that
\* is recorded whole is applied whole.  Connections share the default context,
\* so one connection's swap carries what another registered against it.
C13_SettingsOfOldContextApplied ==
    Swapped =>
        LET old == negotiationDataForContext[last.oldContext]
            new == contexts[connections[last.conn].context]
        IN  /\ \A f \in NegotiationFields :
                   new[NativeField(f)] # None => new[NativeField(f)] = old[f]
            /\ (old.npnAdvertiseCallback # None /\ old.npnSelectCallback # None)
               => /\ new.npn_advertise_callback = old.npnAdvertiseCallback
                  /\ new.npn_select_callback = old.npnSelectCallback
            /\ (old.alpnSelectCallback # None /\ old.alpnProtocols # None)
               => /\ new.alpn_select_callback = old.alpnSelectCallback
                  /\ new.alpn_protos = old.alpnProtocols

C13_Witness ==
    /\ Swapped
    /\ last.conn = "c2"
    /\ last.oldContext = The(context)
    /\ Registrants(last.oldContext) = {"c1"}
    /\ contexts[connections["c2"].context].alpn_protos # None
    /\ contexts[connections["c2"].context].alpn_select_callback # None

\* the latest call was a selectContext whose certificate lookup failed
LookupFailed(call) == call.op = "selectContext" /\ call.result \in {"KeyError", "TypeError"}

\* C14: a failed certificate lookup on one connection changes nothing but that
\* connection: every other connection (its active context and ACME flag), the
\* dispatcher's default context, the contexts built so far and the negotiation
\* store are as before; and whatever failed before or fails meanwhile, a
\* selectContext with a hostname the consulted resolver holds swaps the context.
C14_FailureStaysLocal ==
    /\ [][LookupFailed(last')
            => /\ \A d \in Conns \ {last'.conn} : connections'[d] = connections[d]
               /\ context' = context
               /\ contexts' = contexts
               /\ negotiationDataForContext' = negotiationDataForContext]_vars
    /\ []((/\ last.op = "selectContext"
           /\ last.servername # None
           /\ The(last.servername) \in Consulted(last.acme).keys)
          => /\ last.result = "ok"
             /\ connections[last.conn].context # last.oldContext
             /\ connections[last.conn].state = "SNI_RESOLVED")

C14_Witness ==
    /\ Swapped
    /\ last.conn = "c2"
    /\ connections["c1"].state = "FAILED"
    /\ connections["c1"].context = The(context)
    /\ connections["c2"].context # The(context)

SetterOps ==
    {"set_npn_advertise_callback", "set_npn_select_callback",
     "set_alpn_select_callback", "set_alpn_protos"}

\* C15: the context read through a connection proxy is a wrapper of the
\* connection's active context; every setter called on it registers the value
\* on that raw context and records it in the store under that context; and
\* what was so recorded under a context the connection was swapped to is on
\* the context the connection's next swap installs.
C15_SettersRecordedAndCarried ==
    /\ \A c \in Conns :
           connections[c].exists =>
               ConnectionProxy_get_context(connections[c]) =
                   [wrapper |-> "_ContextProxy", obj |-> connections[c].context]
    /\ (last.op \in SetterOps /\ last.result = "ok")
       => /\ last.oldContext = connections[last.conn].context
          /\ negotiationDataForContext[last.oldContext][RecordedField(last.op)] # None
          /\ contexts[last.oldContext][NativeField(RecordedField(last.op))]
                 = negotiationDataForContext[last.oldContext][RecordedField(last.op)]
    /\ (Swapped /\ last.oldContext # The(context))
       => \A f \in NegotiationFields :
              negotiationDataForContext[last.oldContext][f] # None
              => contexts[connections[last.conn].context][NativeField(f)]
                     = negotiationDataForContext[last.oldContext][f]

\* C16: once the dispatcher is constructed its default context is never
\* replaced, by a swap or anything else: it stays the same context, built from
\* the same bundle, with selectContext as its servername callback; and every
\* connection serverConnectionForTLS creates, however many connections were
\* swapped before, starts on that default context with its ACME flag false.
C16_DefaultContextFixed ==
    /\ [][context # None
            => /\ context' = context
               /\ contexts'[The(context)].bundle = contexts[The(context)].bundle
               /\ contexts'[The(context)].servername_callback = Some("selectContext")]_vars
    /\ [](last.op = "serverConnectionForTLS"
          => /\ connections[last.conn].context = The(context)
             /\ AcmeFlag(connections[last.conn]) = FALSE
             /\ connections[last.conn].state = "INIT")

C16_Witness ==
    /\ last.op = "serverConnectionForTLS"
    /\ last.conn = "c2"
    /\ connections["c1"].context # The(context)
    /\ connections["c2"].context = The(context)

\* a pair of the record is recorded whole and one of its values is one the
\* TLS library refuses
RefusedPair(data) ==
    \/ /\ data.npnAdvertiseCallback # None
       /\ data.npnSelectCallback # None
       /\ \/ data.npnAdvertiseCallback = Some("rejected")
          \/ data.npnSelectCallback = Some("rejected")
    \/ /\ data.alpnSelectCallback # None
       /\ data.alpnProtocols = Some("rejected")

\* C18: when the hostname resolves and re-applying a recorded setting to the
\* new context fails, selectContext ends with that failure, and after any
\* selectContext that ended with it the connection is still on its old context
\* and its handshake has failed.
C18_ReapplyFailureSurfaced ==
    last.op = "selectContext" =>
        /\ (/\ last.servername # None
            /\ The(last.servername) \in Consulted(last.acme).keys
            /\ RefusedPair(negotiationDataForContext[last.oldContext]))
           => last.result = "SetterError"
        /\ last.result = "SetterError"
           => /\ connections[last.conn].context = last.oldContext
              /\ connections[last.conn].state = "FAILED"
              /\ RefusedPair(negotiationDataForContext[last.oldContext])

C18_Witness ==
    /\ last.op = "selectContext"
    /\ last.result = "SetterError"
    /\ negotiationDataForContext[last.oldContext].npnAdvertiseCallback = Some("rejected")
    /\ connections[last.conn].context = The(context)

\* C19: a selectAlpn call, whether it overrides or delegates, leaves the
\* connection's active context, its ACME flag, the contexts and the
\* negotiation store as they were; when it overrides it has not called the
\* default decision; and a selectContext call, failed or not, leaves the
\* connection's ACME flag as it was.
C19_DecisionsChangeNothingElse ==
    /\ [][last'.op = "selectAlpn"
            => /\ connections'[last'.conn].context = connections[last'.conn].context
               /\ AcmeFlag(connections'[last'.conn]) = AcmeFlag(connections[last'.conn])
               /\ contexts' = contexts
               /\ negotiationDataForContext' = negotiationDataForContext]_vars
    /\ [][last'.op = "selectContext"
            => AcmeFlag(connections'[last'.conn]) = AcmeFlag(connections[last'.conn])]_vars
    /\ []((/\ last.op = "selectAlpn"
           /\ Contains(last.protocols, ACME_TLS_1)
           /\ AcmeFlag(connections[last.conn])
           /\ acme_mapping # None)
          => last.defaultCalls = 0)

C19_Witness ==
    /\ last.op = "selectAlpn"
    /\ last.defaultCalls = 0
    /\ AcmeFlag(connections[last.conn])
    /\ connections[last.conn].state = "ALPN_DECIDED"
    /\ negotiationDataForContext[The(context)].alpnProtocols # None

====
